---- MODULE Spec2Model ----
(***************************************************************************)
(* Model of __config_LoadCmdLine (src/config/cmdline.c): the long-option   *)
(* table and the packed short-option spec are generated from the module    *)
(* registry, argv is scanned with getopt_long, and every recognised option *)
(* is resolved to a descriptor, coerced and written to the configuration   *)
(* store.  Strings are sequences of one-character strings; a pointer to a  *)
(* descriptor is the pair <<module index, item index>>.                    *)
(***************************************************************************)
EXTENDS Integers, Sequences, FiniteSets, TLC

(***************************************************************************)
(* C strings and the libc conversions the dispatcher applies to them.      *)
(***************************************************************************)
NULL == <<"(null)">>          \* a null char pointer (no string has this form)
NUL == ""                     \* the character code 0
EOF == "EOF"                  \* getopt_long's -1

Drop(s, n) == IF n >= Len(s) THEN <<>> ELSE SubSeq(s, n + 1, Len(s))
Take(s, n) == IF n >= Len(s) THEN s ELSE SubSeq(s, 1, n)
CharAt(s, i) == IF i < Len(s) THEN s[i + 1] ELSE NUL      \* s[i] of a C string

DigitVal ==
  [c \in {"0", "1", "2", "3", "4", "5", "6", "7", "8", "9",
          "a", "b", "c", "d", "e", "f"} |->
     CASE c = "0" -> 0 [] c = "1" -> 1 [] c = "2" -> 2 [] c = "3" -> 3
       [] c = "4" -> 4 [] c = "5" -> 5 [] c = "6" -> 6 [] c = "7" -> 7
       [] c = "8" -> 8 [] c = "9" -> 9 [] c = "a" -> 10 [] c = "b" -> 11
       [] c = "c" -> 12 [] c = "d" -> 13 [] c = "e" -> 14 [] c = "f" -> 15]

IsDigitIn(c, base) == c \in DOMAIN DigitVal /\ DigitVal[c] < base

\* Value of the longest prefix of s made of digits of the base, from acc.
RECURSIVE DigitsValue(_, _, _)
DigitsValue(s, base, acc) ==
  IF s = <<>> \/ ~IsDigitIn(Head(s), base) THEN acc
  ELSE DigitsValue(Tail(s), base, acc * base + DigitVal[Head(s)])

RECURSIVE DigitsLen(_, _)
DigitsLen(s, base) ==
  IF s = <<>> \/ ~IsDigitIn(Head(s), base) THEN 0
  ELSE 1 + DigitsLen(Tail(s), base)

SignOf(s) == IF CharAt(s, 0) = "-" THEN -1 ELSE 1
Unsigned(s) == IF CharAt(s, 0) \in {"-", "+"} THEN Tail(s) ELSE s

\* Variant: the text is read as a decimal number only.
strtol_Decimal(s) == SignOf(s) * DigitsValue(Unsigned(s), 10, 0)

\* strtol( s, 0, 0 ): the base is taken from the prefix (0x hexadecimal,
\* 0 octal, decimal otherwise); text with no leading number gives 0.
strtol(s) ==
  LET u == Unsigned(s)
      mag == IF CharAt(u, 0) = "0" /\ CharAt(u, 1) = "x" /\ IsDigitIn(CharAt(u, 2), 16)
               THEN DigitsValue(Drop(u, 2), 16, 0)
             ELSE IF CharAt(u, 0) = "0" THEN DigitsValue(u, 8, 0)
             ELSE DigitsValue(u, 10, 0)
  IN SignOf(s) * mag

\* atoi( s ): decimal only.
atoi(s) == SignOf(s) * DigitsValue(Unsigned(s), 10, 0)

\* atof( s ) on decimal text: the value is mant / 10^frac, in lowest form.
RECURSIVE Normalise(_, _)
Normalise(mant, frac) ==
  IF frac > 0 /\ mant % 10 = 0 THEN Normalise(mant \div 10, frac - 1)
  ELSE [mant |-> mant, frac |-> frac]

atof(s) ==
  LET u == Unsigned(s)
      n == DigitsLen(u, 10)
      ip == DigitsValue(u, 10, 0)
      rest == Drop(u, n)
      fl == IF CharAt(rest, 0) = "." THEN DigitsLen(Tail(rest), 10) ELSE 0
      mant == IF fl > 0 THEN DigitsValue(Tail(rest), 10, ip) ELSE ip
  IN Normalise(SignOf(s) * mant, fl)

\* ConfigStringToKey( s ): the key code of a key name, 0 for no key.
ConfigStringToKey(s) ==
  IF s = <<"q">> THEN 113 ELSE IF s = <<"f">> THEN 102 ELSE 0

(***************************************************************************)
(* Option descriptors (module_config_t) and the module registry.           *)
(***************************************************************************)
CONFIG_HINT == "CONFIG_HINT_CATEGORY"
CONFIG_ITEM_STRING == "CONFIG_ITEM_STRING"
CONFIG_ITEM_FILE == "CONFIG_ITEM_FILE"
CONFIG_ITEM_MODULE == "CONFIG_ITEM_MODULE"
CONFIG_ITEM_INTEGER == "CONFIG_ITEM_INTEGER"
CONFIG_ITEM_FLOAT == "CONFIG_ITEM_FLOAT"
CONFIG_ITEM_KEY == "CONFIG_ITEM_KEY"
CONFIG_ITEM_BOOL == "CONFIG_ITEM_BOOL"

\* The kinds whose value is stored as text (the first case group of both
\* switches).
StringKinds ==
  {CONFIG_ITEM_STRING, "CONFIG_ITEM_PASSWORD", CONFIG_ITEM_FILE,
   "CONFIG_ITEM_DIRECTORY", CONFIG_ITEM_MODULE, "CONFIG_ITEM_MODULE_LIST",
   "CONFIG_ITEM_MODULE_LIST_CAT", "CONFIG_ITEM_MODULE_CAT"}

Item(name, short, type, current, strict) ==
  [psz_name |-> name, i_short |-> short, i_type |-> type,
   psz_current |-> current, b_strict |-> strict]

IsHint(item) == item.i_type = CONFIG_HINT

no_argument == 0
required_argument == 1


\* A module is its p_config array; the counters below are the module_t
\* fields of the same names, kept by the registry when a module is loaded.
confsize(mod) == Len(mod)
i_config_items(mod) == Cardinality({k \in 1..Len(mod) : ~IsHint(mod[k])})
i_bool_items(mod) ==
  Cardinality({k \in 1..Len(mod) : mod[k].i_type = CONFIG_ITEM_BOOL})

NULLITEM == <<0, 0>>          \* a null module_config_t pointer

RECURSIVE SumOver(_, _)
SumOver(reg, n) ==
  IF n = 0 THEN 0
  ELSE SumOver(reg, n - 1) + i_config_items(reg[n]) + 2 * i_bool_items(reg[n])

\* Variant: no room is counted for the negation entries.
RECURSIVE SumItems(_, _)
SumItems(reg, n) ==
  IF n = 0 THEN 0 ELSE SumItems(reg, n - 1) + i_config_items(reg[n])

CountOpts_NoNegations(reg) == SumItems(reg, Len(reg))

\* Lines 121-132: the number of long options to make room for.
CountOpts(reg) == SumOver(reg, Len(reg))

\* The descriptors in traversal order (module order, then item order), as
\* pointers; modules without configuration items are not entered.
RECURSIVE Traversal(_, _, _)
Traversal(reg, m, k) ==
  IF m > Len(reg) THEN <<>>
  ELSE IF k > Len(reg[m]) \/ i_config_items(reg[m]) = 0 THEN Traversal(reg, m + 1, 1)
  ELSE <<(<<m, k>>)>> \o Traversal(reg, m, k + 1)

Deref(reg, p) == reg[p[1]][p[2]]

\* config_FindConfig: the first descriptor, hints aside, that bears the
\* name exactly; a null pointer when there is none.
FindIn(reg, name) ==
  LET t == Traversal(reg, 1, 1)
      hits == {i \in 1..Len(t) : /\ ~IsHint(Deref(reg, t[i]))
                                 /\ Deref(reg, t[i]).psz_name = name}
  IN IF hits = {} THEN NULLITEM
     ELSE t[CHOOSE i \in hits : \A j \in hits : i <= j]

config_FindConfig(reg, name) == IF name = NULL THEN NULLITEM ELSE FindIn(reg, name)

(***************************************************************************)
(* State of one call.                                                      *)
(***************************************************************************)
VARIABLES
  registry,          \* p_list: the modules found by vlc_list_find
  b_ignore_errors,   \* the mode: TRUE permissive, FALSE strict
  callerArgv,        \* the caller's array (p_libvlc->ppsz_argv), argv[0] first
  dupArgv,           \* the duplicate made at line 156 (<<>> while there is none)
  ppsz_argv,         \* which array the local ppsz_argv points to
  oomLeft,           \* how many more allocations may fail
  pc,                \* position in the function
  i_opts, p_longopts, psz_shortopts, pp_shortopts,
  i_index, i_shortopts, i_modules_index, p_item,
  flag, i_verbose,
  optind, optarg, optopt, nextchar, first_nonopt, last_nonopt,
  store,             \* the config_Put* calls made, in order
  stderr,            \* the diagnostics printed, in order
  ret,               \* the value returned ("none" until the call returns)
  live,              \* the blocks allocated and not yet released
  badFree,           \* a block was released that was not live
  oob                \* a write landed outside its buffer

vars ==
  <<registry, b_ignore_errors, callerArgv, dupArgv, ppsz_argv, oomLeft, pc,
    i_opts, p_longopts, psz_shortopts, pp_shortopts, i_index, i_shortopts,
    i_modules_index, p_item, flag, i_verbose, optind, optarg, optopt,
    nextchar, first_nonopt, last_nonopt, store, stderr, ret, live, badFree, oob>>

inputVars == <<registry, b_ignore_errors>>
scanVars == <<optind, optarg, optopt, nextchar, first_nonopt, last_nonopt>>
buildVars == <<i_opts, p_longopts, psz_shortopts, pp_shortopts, i_shortopts,
               i_modules_index, p_item>>
outVars == <<store, stderr>>

UNINIT == -1                  \* an int that was never assigned
Garbage == [name |-> <<"(garbage)">>, has_arg |-> UNINIT, val |-> UNINIT, blk |-> 0]
Terminator == [name |-> NULL, has_arg |-> 0, val |-> 0, blk |-> 0]

\* The character codes a short flag or a token character can have.
ShortCodes ==
  {NUL, "?", "a", "b", "c", "d", "e", "f", "g", "h", "i", "j", "k", "l", "m",
   "n", "o", "p", "q", "r", "s", "t", "u", "v", "w", "x", "y", "z",
   "0", "1", "2", "3", "4", "5", "6", "7", "8", "9", "-", "=", ".", ":"}

\* The blocks of the call other than the names: the module list, the two
\* tables and the argv duplicate.
ListBlk == <<"p_list", 0>>
LongoptsBlk == <<"p_longopts", 0>>
ShortoptsBlk == <<"psz_shortopts", 0>>
ArgvBlk == <<"ppsz_argv", 0>>

\* malloc and strdup: an allocation may fail while failures are left.
MayFail == IF oomLeft > 0 THEN {TRUE, FALSE} ELSE {FALSE}

Release(heap, b) == heap \ {b}
ReleaseAll(heap, bs) == heap \ bs

\* Lines 298-302, 411-414 and 420-423: release every name up to the
\* terminator, then the two tables.
RECURSIVE NamesUpToNull(_, _)
NamesUpToNull(tab, i) ==
  IF i > Len(tab) \/ tab[i].name = NULL THEN <<>>
  ELSE <<tab[i].blk>> \o NamesUpToNull(tab, i + 1)

FreedByTables(tab) == NamesUpToNull(tab, 1) \o <<LongoptsBlk, ShortoptsBlk>>

\* Releasing the blocks bs in order: the heap left, and whether some block
\* was released while not live.
RECURSIVE FreeSeq(_, _)
FreeSeq(heap, bs) ==
  IF bs = <<>> THEN [heap |-> heap, bad |-> FALSE]
  ELSE LET r == FreeSeq(Release(heap, Head(bs)), Tail(bs))
       IN [heap |-> r.heap, bad |-> r.bad \/ Head(bs) \notin heap]

InitWith(Regs, Argvs, Ooms) ==
  /\ registry \in Regs
  /\ b_ignore_errors \in BOOLEAN
  /\ callerArgv \in Argvs
  /\ oomLeft \in Ooms
  /\ dupArgv = <<>>
  /\ ppsz_argv = "caller"
  /\ pc = "alloc_longopts"
  /\ i_opts = UNINIT /\ i_index = UNINIT /\ i_shortopts = UNINIT
  /\ i_modules_index = UNINIT /\ p_item = UNINIT /\ flag = UNINIT
  /\ p_longopts = <<>> /\ psz_shortopts = <<>>
  /\ pp_shortopts = [c \in ShortCodes |-> NULLITEM]
  /\ i_verbose = 0
  /\ optind = 1 /\ optarg = NULL /\ optopt = "?" /\ nextchar = <<>>
  /\ first_nonopt = 1 /\ last_nonopt = 1
  /\ store = <<>> /\ stderr = <<>>
  /\ ret = "none"
  /\ live = {ListBlk}
  /\ badFree = FALSE /\ oob = FALSE

(***************************************************************************)
(* Lines 114-173: the module list, the two tables, the argv duplicate.     *)
(***************************************************************************)
\* Lines 121-140: count the options and allocate the long-option table.
AllocLongopts ==
  /\ pc = "alloc_longopts"
  /\ \E fail \in MayFail :
       IF fail
         THEN /\ stderr' = Append(stderr, [msg |-> "out of memory"])
              /\ live' = Release(live, ListBlk)
              /\ ret' = -1 /\ pc' = "done"
              /\ oomLeft' = oomLeft - 1
              /\ p_longopts' = p_longopts
         ELSE /\ p_longopts' = [i \in 1..(CountOpts(registry) + 1) |-> Garbage]
              /\ live' = live \cup {LongoptsBlk}
              /\ pc' = "alloc_shortopts"
              /\ UNCHANGED <<stderr, ret, oomLeft>>
  /\ i_opts' = CountOpts(registry)
  /\ i_modules_index' = Len(registry)
  /\ UNCHANGED <<inputVars, callerArgv, dupArgv, ppsz_argv, psz_shortopts,
                 pp_shortopts, i_index, i_shortopts, p_item, flag, i_verbose,
                 scanVars, store, badFree, oob>>

\* The size in bytes of the short-option spec buffer (line 142).
ShortoptsSize(n) == 2 * n + 1

\* Lines 142-149.
AllocShortopts ==
  /\ pc = "alloc_shortopts"
  /\ \E fail \in MayFail :
       IF fail
         THEN /\ stderr' = Append(stderr, [msg |-> "out of memory"])
              /\ live' = ReleaseAll(live, {LongoptsBlk, ListBlk})
              /\ ret' = -1 /\ pc' = "done"
              /\ oomLeft' = oomLeft - 1
         ELSE /\ live' = live \cup {ShortoptsBlk}
              /\ pc' = "copy_argv"
              /\ UNCHANGED <<stderr, ret, oomLeft>>
  /\ UNCHANGED <<inputVars, callerArgv, dupArgv, ppsz_argv, buildVars, i_index,
                 flag, i_verbose, scanVars, store, badFree, oob>>

\* Variant: the scan always works on the caller's array.
ScansDuplicate_Never(ignore) == FALSE

\* Line 154: the scan works on a duplicate exactly when errors are ignored.
ScansDuplicate(ignore) == ignore

\* Lines 151-173: duplicate argv when asked to ignore errors, then clear
\* the short table.
CopyArgv ==
  /\ pc = "copy_argv"
  /\ IF ScansDuplicate(b_ignore_errors)
       THEN \E fail \in MayFail :
              IF fail
                THEN /\ stderr' = Append(stderr, [msg |-> "out of memory"])
                     /\ live' = ReleaseAll(live, {ShortoptsBlk, LongoptsBlk, ListBlk})
                     /\ ret' = -1 /\ pc' = "done"
                     /\ oomLeft' = oomLeft - 1
                     /\ UNCHANGED <<dupArgv, ppsz_argv, i_shortopts, pp_shortopts,
                                    i_index, i_modules_index>>
                ELSE /\ dupArgv' = callerArgv
                     /\ ppsz_argv' = "dup"
                     /\ live' = live \cup {ArgvBlk}
                     /\ i_shortopts' = 0
                     /\ pp_shortopts' = [c \in ShortCodes |-> NULLITEM]
                     /\ i_index' = 0 /\ i_modules_index' = 0
                     /\ pc' = "fill_module"
                     /\ UNCHANGED <<stderr, ret, oomLeft>>
       ELSE /\ i_shortopts' = 0
            /\ pp_shortopts' = [c \in ShortCodes |-> NULLITEM]
            /\ i_index' = 0 /\ i_modules_index' = 0
            /\ pc' = "fill_module"
            /\ UNCHANGED <<dupArgv, ppsz_argv, live, stderr, ret, oomLeft>>
  /\ UNCHANGED <<inputVars, callerArgv, i_opts, p_longopts, psz_shortopts, p_item,
                 flag, i_verbose, scanVars, store, badFree, oob>>

(***************************************************************************)
(* Lines 175-257: fill the long-option table and the short-option spec.    *)
(***************************************************************************)
\* Lines 197-199: only a Bool option takes no argument.
HasArg(item) ==
  IF item.i_type = CONFIG_ITEM_BOOL THEN no_argument ELSE required_argument

\* Lines 208-211 and 219-222: the names of the two negation entries.
NoName(name) == <<"n", "o">> \o name
NoDashName(name) == <<"n", "o", "-">> \o name

\* The name block that is stored in slot i (0-based) of the table.
NameBlk(i) == <<"name", i>>

\* Lines 195-229: the entries one descriptor adds when its first `fail - 1`
\* name allocations succeed and the next one fails (fail = 0: none fails).
EntriesOf(item, at, fail) ==
  LET primary == [name |-> item.psz_name, has_arg |-> HasArg(item),
                  val |-> 0, blk |-> NameBlk(at)]
      no == [name |-> NoName(item.psz_name), has_arg |-> no_argument,
             val |-> 1, blk |-> NameBlk(at + 1)]
      nodash == [name |-> NoDashName(item.psz_name), has_arg |-> no_argument,
                 val |-> 1, blk |-> NameBlk(at + 2)]
  IN IF fail = 1 THEN <<>>
     ELSE IF item.i_type # CONFIG_ITEM_BOOL THEN <<primary>>
     ELSE IF fail = 2 THEN <<primary>>
     ELSE IF fail = 3 THEN <<primary, no>>
     ELSE <<primary, no, nodash>>

\* How many names the descriptor asks for: the failing one can be any.
NamesWanted(item) == IF item.i_type = CONFIG_ITEM_BOOL THEN 3 ELSE 1

\* Lines 232-248: what a descriptor with a short flag appends to the spec.
ShortSpec(item) ==
  <<item.i_short>>
    \o (IF item.i_type # CONFIG_ITEM_BOOL THEN <<":">> ELSE <<>>)
    \o (IF item.i_type # CONFIG_ITEM_BOOL /\ item.i_short = "v" THEN <<":">> ELSE <<>>)

\* Storing entries es from slot `at` (0-based): slots outside the table are
\* not part of it.
RECURSIVE PutSlots(_, _, _)
PutSlots(tab, at, es) ==
  IF es = <<>> THEN tab
  ELSE PutSlots(IF at < Len(tab) THEN [tab EXCEPT ![at + 1] = Head(es)] ELSE tab,
                at + 1, Tail(es))

\* Lines 177-186: the head of the loop over the modules.
NextModule ==
  /\ pc = "fill_module"
  /\ IF i_modules_index < Len(registry)
       THEN IF i_config_items(registry[i_modules_index + 1]) = 0
              THEN /\ i_modules_index' = i_modules_index + 1
                   /\ UNCHANGED <<pc, p_item, live>>
              ELSE /\ p_item' = 0
                   /\ pc' = "fill_item"
                   /\ UNCHANGED <<i_modules_index, live>>
       ELSE /\ pc' = "close"
            /\ live' = Release(live, ListBlk)               \* line 253
            /\ UNCHANGED <<i_modules_index, p_item>>
  /\ UNCHANGED <<inputVars, callerArgv, dupArgv, ppsz_argv, oomLeft, i_opts,
                 p_longopts, psz_shortopts, pp_shortopts, i_index, i_shortopts,
                 flag, i_verbose, scanVars, outVars, ret, badFree, oob>>

\* Lines 186-249: one descriptor of the current module.
FillItem ==
  /\ pc = "fill_item"
  /\ LET mod == registry[i_modules_index + 1]
     IN IF p_item >= confsize(mod)
          THEN /\ i_modules_index' = i_modules_index + 1
               /\ pc' = "fill_module"
               /\ UNCHANGED <<p_item, p_longopts, psz_shortopts, pp_shortopts,
                              i_index, i_shortopts, live, oomLeft, oob>>
          ELSE LET item == mod[p_item + 1]
               IN /\ p_item' = p_item + 1
                  /\ UNCHANGED <<i_modules_index, pc>>
                  /\ IF IsHint(item)
                       THEN UNCHANGED <<p_longopts, psz_shortopts, pp_shortopts,
                                        i_index, i_shortopts, live, oomLeft, oob>>
                       ELSE \E fail \in 0..NamesWanted(item) :
                              /\ fail > 0 => oomLeft > 0
                              /\ LET es == EntriesOf(item, i_index, fail)
                                     short == fail = 0 /\ item.i_short # NUL
                                     spec == IF short THEN ShortSpec(item) ELSE <<>>
                                     null == [Garbage EXCEPT !.name = NULL]
                                 IN /\ p_longopts' =
                                         PutSlots(p_longopts, i_index,
                                                  IF fail = 1 THEN <<null>> ELSE es)
                                    /\ i_index' = i_index + Len(es)
                                    /\ live' = live \cup {es[j].blk : j \in 1..Len(es)}
                                    /\ oomLeft' = IF fail > 0 THEN oomLeft - 1 ELSE oomLeft
                                    /\ pp_shortopts' =
                                         IF short
                                           THEN [pp_shortopts EXCEPT ![item.i_short] =
                                                   <<i_modules_index + 1, p_item + 1>>]
                                           ELSE pp_shortopts
                                    /\ psz_shortopts' =
                                         Take(psz_shortopts \o spec, ShortoptsSize(i_opts))
                                    /\ i_shortopts' = i_shortopts + Len(spec)
                                    /\ oob' = (\/ oob
                                               \/ i_index + Len(es) > Len(p_longopts)
                                               \/ fail = 1 /\ i_index >= Len(p_longopts)
                                               \/ i_shortopts + Len(spec) > ShortoptsSize(i_opts))
  /\ UNCHANGED <<inputVars, callerArgv, dupArgv, ppsz_argv, i_opts, flag,
                 i_verbose, scanVars, outVars, ret, badFree>>

\* Lines 255-263: terminate both structures and reset the scan.  A write
\* outside a buffer is undefined: the call may die here or go on.
CloseTables ==
  /\ pc = "close"
  /\ p_longopts' = PutSlots(p_longopts, i_index, <<Terminator>>)
  /\ oob' = (oob \/ i_index >= Len(p_longopts) \/ i_shortopts >= ShortoptsSize(i_opts))
  /\ pc' \in (IF oob' THEN {"parse", "crashed"} ELSE {"parse"})
  /\ optind' = 0
  /\ UNCHANGED <<inputVars, callerArgv, dupArgv, ppsz_argv, oomLeft, i_opts,
                 psz_shortopts, pp_shortopts, i_index, i_shortopts,
                 i_modules_index, p_item, flag, i_verbose, optarg, optopt,
                 nextchar, first_nonopt, last_nonopt, outVars, ret, live, badFree>>

(***************************************************************************)
(* getopt_long: one call of the scanner on the array arr (argv[i] is       *)
(* arr[i + 1]), with the generated tables, permuting arr in place so that  *)
(* the non-options end up last.  Long names match exactly.                 *)
(***************************************************************************)
Min(a, b) == IF a < b THEN a ELSE b

\* argv[i] is not an option: it does not start with '-', or is "-" alone.
NonOption(tok) == CharAt(tok, 0) # "-" \/ CharAt(tok, 1) = NUL

\* The in-place exchange of the non-options [first, last) with the options
\* [last, opt) that follow them.
Exchange(arr, first, last, opt) ==
  SubSeq(arr, 1, first) \o SubSeq(arr, last + 1, opt)
    \o SubSeq(arr, first + 1, last) \o SubSeq(arr, opt + 1, Len(arr))

RECURSIVE SkipNonOptions(_, _)
SkipNonOptions(arr, i) ==
  IF i < Len(arr) /\ NonOption(arr[i + 1]) THEN SkipNonOptions(arr, i + 1) ELSE i

\* The index (0-based) of the first entry named `name` before the
\* terminator, -1 when there is none.
RECURSIVE LongIndex(_, _, _)
LongIndex(tab, name, i) ==
  IF i >= Len(tab) \/ tab[i + 1].name = NULL THEN -1
  ELSE IF tab[i + 1].name = name THEN i
  ELSE LongIndex(tab, name, i + 1)

\* Position (1-based) of character c in s, 0 when absent.
RECURSIVE IndexOf(_, _, _)
IndexOf(s, c, i) ==
  IF i > Len(s) THEN 0 ELSE IF s[i] = c THEN i ELSE IndexOf(s, c, i + 1)

\* An int held in optopt, as a character code.
CodeOf(n) == IF n = 0 THEN NUL ELSE "\\1"

\* The scanner's cursor on entry: optind 0 asks for a fresh scan.
ScanInit(o, nc, f, l) ==
  IF o = 0
    THEN [optind |-> 1, nextchar |-> <<>>, first |-> 1, last |-> 1]
    ELSE [optind |-> o, nextchar |-> nc, first |-> Min(f, o), last |-> Min(l, o)]

\* The options scanned since the last call are moved before the
\* non-options that were skipped.
ScanPermute(arr, s) ==
  IF s.first # s.last /\ s.last # s.optind
    THEN [arr |-> Exchange(arr, s.first, s.last, s.optind),
          first |-> s.first + (s.optind - s.last), optind |-> s.optind]
    ELSE [arr |-> arr, first |-> IF s.last # s.optind THEN s.optind ELSE s.first,
          optind |-> s.optind]

\* Skip the non-options that follow; they become [first, last).
ScanSkip(p) ==
  [arr |-> p.arr, first |-> p.first, optind |-> SkipNonOptions(p.arr, p.optind)]

\* The token "--" ends the options: everything after it is a non-option.
ScanDashes(q) ==
  IF q.optind # Len(q.arr) /\ q.arr[q.optind + 1] = <<"-", "-">>
    THEN IF q.first # q.optind
           THEN [arr |-> Exchange(q.arr, q.first, q.optind, q.optind + 1),
                 first |-> q.first + 1, last |-> Len(q.arr), optind |-> Len(q.arr)]
           ELSE [arr |-> q.arr, first |-> q.optind + 1, last |-> Len(q.arr),
                 optind |-> Len(q.arr)]
    ELSE [arr |-> q.arr, first |-> q.first, last |-> q.optind, optind |-> q.optind]

\* The end of the scan, or the token to decode and where its name starts.
ScanToken(r) ==
  IF r.optind = Len(r.arr)
    THEN [arr |-> r.arr, optind |-> IF r.first # r.last THEN r.first ELSE r.optind,
          nextchar |-> <<>>, first |-> r.first, last |-> r.last, end |-> TRUE]
    ELSE [arr |-> r.arr, optind |-> r.optind,
          nextchar |-> Drop(r.arr[r.optind + 1],
                            IF CharAt(r.arr[r.optind + 1], 1) = "-" THEN 2 ELSE 1),
          first |-> r.first, last |-> r.last, end |-> FALSE]

\* The start of a scan step: inside a cluster nothing moves; at a token
\* boundary the array is permuted and the non-options are skipped.
ScanStart(arr, o, nc, f, l) ==
  IF o # 0 /\ nc # <<>>
    THEN [arr |-> arr, optind |-> o, nextchar |-> nc, first |-> f, last |-> l,
          end |-> FALSE]
    ELSE ScanToken(ScanDashes(ScanSkip(ScanPermute(arr, ScanInit(o, nc, f, l)))))

\* A long option: the token starts with "--".
ScanLong(s, tab) ==
  LET argc == Len(s.arr)
      eq == IndexOf(s.nextchar, "=", 1)
      name == IF eq = 0 THEN s.nextchar ELSE Take(s.nextchar, eq - 1)
      ix == LongIndex(tab, name, 0)
      e == tab[ix + 1]
      base == [arr |-> s.arr, first |-> s.first, last |-> s.last, nextchar |-> <<>>,
               optarg |-> NULL, optopt |-> optopt, longind |-> UNINIT,
               flag |-> UNINIT, optind |-> s.optind + 1, cmd |-> "?"]
  IN IF ix < 0 THEN [base EXCEPT !.optopt = NUL]
     ELSE IF eq # 0
       THEN IF e.has_arg # no_argument
              THEN [base EXCEPT !.optarg = Drop(s.nextchar, eq), !.longind = ix,
                                !.flag = e.val, !.cmd = NUL]
              ELSE [base EXCEPT !.optopt = CodeOf(e.val)]
     ELSE IF e.has_arg = required_argument
       THEN IF s.optind + 1 < argc
              THEN [base EXCEPT !.optarg = s.arr[s.optind + 2], !.optind = s.optind + 2,
                                !.longind = ix, !.flag = e.val, !.cmd = NUL]
              ELSE [base EXCEPT !.optopt = CodeOf(e.val)]
     ELSE [base EXCEPT !.longind = ix, !.flag = e.val, !.cmd = NUL]

\* A short option: the next character of the current token.
ScanShort(s, spec) ==
  LET argc == Len(s.arr)
      c == Head(s.nextchar)
      nc == Tail(s.nextchar)
      at == IndexOf(spec, c, 1)
      o == IF nc = <<>> THEN s.optind + 1 ELSE s.optind
      base == [arr |-> s.arr, first |-> s.first, last |-> s.last, nextchar |-> nc,
               optarg |-> NULL, optopt |-> optopt, longind |-> UNINIT,
               flag |-> UNINIT, optind |-> o, cmd |-> c]
  IN IF at = 0 \/ c = ":" THEN [base EXCEPT !.optopt = c, !.cmd = "?"]
     ELSE IF CharAt(spec, at) # ":" THEN base
     ELSE IF CharAt(spec, at + 1) = ":"
       THEN IF nc # <<>>
              THEN [base EXCEPT !.optarg = nc, !.optind = o + 1, !.nextchar = <<>>]
              ELSE base
     ELSE IF nc # <<>>
       THEN [base EXCEPT !.optarg = nc, !.optind = o + 1, !.nextchar = <<>>]
     ELSE IF o = argc THEN [base EXCEPT !.optopt = c, !.cmd = "?"]
     ELSE [base EXCEPT !.optarg = s.arr[o + 1], !.optind = o + 1]

\* getopt_long( *pi_argc, ppsz_argv, psz_shortopts, p_longopts, &i_index ).
getopt_long(arr, spec, tab) ==
  LET s == ScanStart(arr, optind, nextchar, first_nonopt, last_nonopt)
  IN IF s.end
       THEN [arr |-> s.arr, first |-> s.first, last |-> s.last, nextchar |-> <<>>,
             optarg |-> NULL, optopt |-> optopt, longind |-> UNINIT,
             flag |-> UNINIT, optind |-> s.optind, cmd |-> EOF]
     ELSE IF CharAt(s.arr[s.optind + 1], 1) = "-" THEN ScanLong(s, tab)
     ELSE ScanShort(s, spec)

(***************************************************************************)
(* Lines 264-417: the dispatch loop.                                       *)
(***************************************************************************)
\* The array the scan reads and permutes.
ScannedArgv == IF ppsz_argv = "dup" THEN dupArgv ELSE callerArgv

\* The outcome of the getopt_long call at the head of the loop.
Scan == getopt_long(ScannedArgv, psz_shortopts, p_longopts)

\* Line 274: skip the "no" or "no-" of a negation entry.
StripNo(name, flg) ==
  IF flg # 0 THEN Drop(name, IF CharAt(name, 2) = "-" THEN 3 ELSE 2) ELSE name

\* Lines 271-277: the descriptor a recognised long option resolves to.
LongName(g) == StripNo(p_longopts[g.longind + 1].name, g.flag)
LongConf(g) == config_FindConfig(registry, LongName(g))

\* Lines 281-283: the option no longer exists, its value is dropped.
IsRemoved(conf) == conf.psz_current # NULL /\ conf.b_strict

\* Line 281 with 283 not taken: the option is deprecated, not removed.
IsDeprecated(conf) == conf.psz_current # NULL /\ ~conf.b_strict

\* Variant: a deprecated option never ends the call.
AbortsOnDeprecated_Never(ignore) == FALSE

\* Line 295: a deprecated option ends the call unless errors are ignored.
AbortsOnDeprecated(ignore) == ~ignore

\* Variants: an unknown option never ends the call; it always does.
AbortsOnUnknown_Never(ignore) == FALSE
AbortsOnUnknown_Always(ignore) == TRUE

\* Line 395: so does an unknown option.
AbortsOnUnknown(ignore) == ~ignore

Write(fn, name, val) == [fn |-> fn, name |-> name, val |-> val]
Undefined == [ub |-> TRUE, w |-> <<>>]
Writes(w) == [ub |-> FALSE, w |-> w]

\* Lines 310-334: the store call made for a long option of the given kind;
\* reading a number from a null argument is undefined.
Coerce(type, name, arg, flg) ==
  IF type \in StringKinds THEN Writes(<<Write("config_PutPsz", name, arg)>>)
  ELSE IF type = CONFIG_ITEM_INTEGER
    THEN IF arg = NULL THEN Undefined
         ELSE Writes(<<Write("config_PutInt", name, strtol(arg))>>)
  ELSE IF type = CONFIG_ITEM_FLOAT
    THEN IF arg = NULL THEN Undefined
         ELSE Writes(<<Write("config_PutFloat", name, atof(arg))>>)
  ELSE IF type = CONFIG_ITEM_KEY
    THEN IF arg = NULL THEN Undefined
         ELSE Writes(<<Write("config_PutInt", name, ConfigStringToKey(arg))>>)
  ELSE IF type = CONFIG_ITEM_BOOL
    THEN Writes(<<Write("config_PutInt", name, IF flg = 0 THEN 1 ELSE 0)>>)
  ELSE Writes(<<>>)

RECURSIVE LeadingVs(_)
LeadingVs(s) == IF s # <<>> /\ Head(s) = "v" THEN 1 + LeadingVs(Tail(s)) ELSE 0

\* Variant: a run of v's counts only the v's of the argument.
VerboseAdd_ArgOnly(arg) ==
  IF arg # NULL
    THEN IF CharAt(arg, 0) = "v" THEN LeadingVs(arg) ELSE atoi(arg)
    ELSE 1

\* Lines 357-376: what one occurrence of -v adds to i_verbose.
VerboseAdd(arg) ==
  IF arg # NULL
    THEN IF CharAt(arg, 0) = "v" THEN 1 + LeadingVs(arg) ELSE atoi(arg)
    ELSE 1

\* Lines 342-389: the store call made for a short option; the switch has no
\* case for Float and Key.
ShortCoerce(type, name, arg, cmd, verbose) ==
  IF type \in StringKinds THEN Writes(<<Write("config_PutPsz", name, arg)>>)
  ELSE IF type = CONFIG_ITEM_INTEGER
    THEN IF cmd = "v"
           THEN Writes(<<Write("config_PutInt", name, verbose + VerboseAdd(arg))>>)
         ELSE IF arg = NULL THEN Undefined
         ELSE Writes(<<Write("config_PutInt", name, strtol(arg))>>)
  ELSE IF type = CONFIG_ITEM_BOOL
    THEN Writes(<<Write("config_PutInt", name, 1)>>)
  ELSE Writes(<<>>)

\* What undefined behaviour can do to the store call: nothing, or a call
\* with an indeterminate value.
UndefinedWrites(name) == {<<>>, <<Write("config_PutInt", name, UNINIT)>>}

\* The scanner's effect on the program state, common to every branch.
Scanned(g) ==
  /\ IF ppsz_argv = "dup"
       THEN dupArgv' = g.arr /\ UNCHANGED callerArgv
       ELSE callerArgv' = g.arr /\ UNCHANGED dupArgv
  /\ optind' = g.optind /\ optarg' = g.optarg /\ optopt' = g.optopt
  /\ nextchar' = g.nextchar
  /\ first_nonopt' = g.first /\ last_nonopt' = g.last
  /\ i_index' = IF g.longind # UNINIT THEN g.longind ELSE i_index
  /\ flag' = IF g.flag # UNINIT THEN g.flag ELSE flag

\* Variant: the return of -1 takes back the store calls made so far.
Abort_Rollback ==
  LET r == FreeSeq(live, FreedByTables(p_longopts))
  IN /\ live' = r.heap
     /\ badFree' = (badFree \/ r.bad)
     /\ store' = <<>>
     /\ ret' = -1
     /\ pc' = "done"

\* Lines 298-303 and 411-415: release the tables and return -1; the store
\* is left as it is.
Abort ==
  LET r == FreeSeq(live, FreedByTables(p_longopts))
  IN /\ live' = r.heap
     /\ badFree' = (badFree \/ r.bad)
     /\ UNCHANGED store
     /\ ret' = -1
     /\ pc' = "done"

Continue == UNCHANGED <<live, badFree, ret, pc>>

\* A store call; undefined behaviour either kills the process or goes on
\* with one of its possible store calls.
Perform(c, name) ==
  IF c.ub
    THEN \E crash \in BOOLEAN, w \in UndefinedWrites(name) :
           IF crash
             THEN /\ pc' = "crashed"
                  /\ UNCHANGED <<store, live, badFree, ret>>
             ELSE /\ store' = store \o w
                  /\ Continue
    ELSE /\ store' = store \o c.w
         /\ Continue

IsLong(g) == g.cmd = NUL /\ LongConf(g) # NULLITEM
IsShort(g) == g.cmd # EOF /\ ~IsLong(g) /\ pp_shortopts[g.cmd] # NULLITEM
IsUnknown(g) == g.cmd # EOF /\ ~IsLong(g) /\ pp_shortopts[g.cmd] = NULLITEM

\* Variant: the redirection follows the replacement's own replacement.
Redirected_TwoHops(conf) ==
  LET b == config_FindConfig(registry, conf.psz_current)
  IN IF b # NULLITEM /\ Deref(registry, b).psz_current # NULL
       THEN Deref(registry, b).psz_current
       ELSE conf.psz_current

\* Line 306: the name a deprecated option is redirected to.
Redirected(conf) == conf.psz_current

\* Lines 268-336: a long option has been recognised.
LongOption ==
  /\ pc = "parse"
  /\ IsLong(Scan)
  /\ Scanned(Scan)
  /\ LET conf == Deref(registry, LongConf(Scan))
         psz_name == Redirected(conf)
         p_new == config_FindConfig(registry, psz_name)
     IN IF IsRemoved(conf)
          THEN /\ stderr' = Append(stderr, [msg |-> "no longer exists",
                                            name |-> conf.psz_name])
               /\ UNCHANGED store
               /\ Continue
        ELSE IF IsDeprecated(conf)
          THEN /\ stderr' = Append(stderr,
                     [msg |-> "deprecated", name |-> conf.psz_name,
                      use |-> conf.psz_current,
                      level |-> IF b_ignore_errors THEN "Warning" ELSE "Error"])
               /\ IF AbortsOnDeprecated(b_ignore_errors)
                    THEN Abort
                    ELSE Perform(IF p_new = NULLITEM THEN Undefined
                                 ELSE Coerce(Deref(registry, p_new).i_type,
                                             psz_name, Scan.optarg, Scan.flag),
                                 psz_name)
        ELSE /\ UNCHANGED stderr
             /\ Perform(Coerce(conf.i_type, LongName(Scan), Scan.optarg, Scan.flag),
                        LongName(Scan))
  /\ UNCHANGED <<inputVars, ppsz_argv, oomLeft, buildVars, i_verbose, oob>>

\* Lines 339-392: a short option has been recognised.
ShortOption ==
  /\ pc = "parse"
  /\ IsShort(Scan)
  /\ Scanned(Scan)
  /\ LET conf == Deref(registry, pp_shortopts[Scan.cmd])
     IN /\ Perform(ShortCoerce(conf.i_type, conf.psz_name, Scan.optarg, Scan.cmd,
                               i_verbose),
                   conf.psz_name)
        /\ i_verbose' =
             IF conf.i_type = CONFIG_ITEM_INTEGER /\ Scan.cmd = "v"
               THEN i_verbose + VerboseAdd(Scan.optarg) ELSE i_verbose
  /\ UNCHANGED <<inputVars, ppsz_argv, oomLeft, buildVars, stderr, oob>>

\* Lines 394-416: neither table knows the option.
UnknownOption ==
  /\ pc = "parse"
  /\ IsUnknown(Scan)
  /\ Scanned(Scan)
  /\ IF AbortsOnUnknown(b_ignore_errors)
       THEN /\ stderr' = Append(stderr,
                  [msg |-> "unknown option",
                   what |-> IF Scan.optopt # NUL THEN <<"-", Scan.optopt>>
                            ELSE Scan.arr[Scan.optind]])
            /\ Abort
       ELSE /\ UNCHANGED <<stderr, store>>
            /\ Continue
  /\ UNCHANGED <<inputVars, ppsz_argv, oomLeft, buildVars, i_verbose, oob>>

\* Variant: the duplicate of argv is never released.
FreesDuplicate_Never(ignore) == FALSE

\* Line 424: the duplicate of argv is released when there is one.
FreesDuplicate(ignore) == ignore

\* Lines 419-426: the scan is over.
FreeResources ==
  /\ pc = "parse"
  /\ Scan.cmd = EOF
  /\ Scanned(Scan)
  /\ LET r == FreeSeq(live, FreedByTables(p_longopts)
                            \o (IF FreesDuplicate(b_ignore_errors)
                                  THEN <<ArgvBlk>> ELSE <<>>))
     IN /\ live' = r.heap
        /\ badFree' = (badFree \/ r.bad)
  /\ ret' = 0
  /\ pc' = "done"
  /\ UNCHANGED <<inputVars, ppsz_argv, oomLeft, buildVars, i_verbose, outVars, oob>>

Next ==
  \/ AllocLongopts
  \/ AllocShortopts
  \/ CopyArgv
  \/ NextModule
  \/ FillItem
  \/ CloseTables
  \/ LongOption
  \/ ShortOption
  \/ UnknownOption
  \/ FreeResources

(***************************************************************************)
(* Registries and command lines the call is run on.                        *)
(***************************************************************************)
MaxArgs == 2                  \* tokens after argv[0]
MaxOom == 1                   \* allocations that may fail in one call

Prog == <<"v", "l", "c">>

\* argv[0] followed by at most n tokens of Toks.
Argvs(Toks, n) ==
  {<<Prog>> \o s : s \in UNION {[1..k -> Toks] : k \in 0..n}}

dCat == Item(<<"c", "a", "t">>, NUL, CONFIG_HINT, NULL, FALSE)
dNum == Item(<<"n", "u", "m">>, "n", CONFIG_ITEM_INTEGER, NULL, FALSE)
dStr == Item(<<"s", "t", "r">>, "s", CONFIG_ITEM_STRING, NULL, FALSE)
dBo == Item(<<"b", "o">>, "b", CONFIG_ITEM_BOOL, NULL, FALSE)
dFl == Item(<<"f", "l">>, "f", CONFIG_ITEM_FLOAT, NULL, FALSE)
dKey == Item(<<"k", "e", "y">>, NUL, CONFIG_ITEM_KEY, NULL, FALSE)

tNumHex == <<"-", "-", "n", "u", "m", "=", "0", "x", "1", "0">>
tNum == <<"-", "-", "n", "u", "m">>
tBo == <<"-", "-", "b", "o">>
tNoBo == <<"-", "-", "n", "o", "b", "o">>
tNoDashBo == <<"-", "-", "n", "o", "-", "b", "o">>
tShortN == <<"-", "n">>
tShortB == <<"-", "b">>
tBogus == <<"-", "-", "b", "o", "g", "u", "s">>
tShortZ == <<"-", "z">>
tFile == <<"f", "i", "l", "e">>
tSeven == <<"7">>

Registries ==
  {<<>>,
   <<(<<dCat, dNum, dBo>>)>>,
   <<(<<dCat>>), (<<dBo, dStr>>), (<<>>), (<<dNum>>)>>,
   <<(<<dFl, dKey>>), (<<dCat, dBo>>)>>}

Tokens == {tNumHex, tNum, tBo, tNoDashBo, tShortN, tShortB, tBogus, tShortZ, tFile}

Init == InitWith(Registries, Argvs(Tokens, MaxArgs), 0..MaxOom)

Spec == Init /\ [][Next]_vars

(***************************************************************************)
(* Deprecated and removed options.                                         *)
(***************************************************************************)
dGone == Item(<<"g", "o", "n", "e">>, "g", CONFIG_ITEM_INTEGER, <<"n", "u", "m">>, TRUE)
dOld == Item(<<"o", "l", "d">>, NUL, CONFIG_ITEM_INTEGER, <<"s", "t", "r">>, FALSE)
dOb == Item(<<"o", "b">>, NUL, CONFIG_ITEM_BOOL, <<"n", "u", "m">>, FALSE)
dVia == Item(<<"v", "i", "a">>, NUL, CONFIG_ITEM_STRING, <<"g", "o", "n", "e">>, FALSE)

tOld == <<"-", "-", "o", "l", "d", "=", "5">>
tGone == <<"-", "-", "g", "o", "n", "e", "=", "3">>
tShortG == <<"-", "g", "3">>
tVia == <<"-", "-", "v", "i", "a", "=", "x">>
tOb == <<"-", "-", "o", "b">>
tNumSeven == <<"-", "-", "n", "u", "m", "=", "7">>

DeprRegistries ==
  {<<(<<dNum, dStr, dGone, dOld>>)>>,
   <<(<<dCat, dNum, dBo>>), (<<dOb, dVia, dGone>>)>>}

DeprTokens == {tOld, tGone, tShortG, tVia, tOb, tNumSeven, tBogus, tFile}

InitDepr == InitWith(DeprRegistries, Argvs(DeprTokens, MaxArgs), 0..MaxOom)

SpecDepr == InitDepr /\ [][Next]_vars

\* The descriptor a store call names, when the registry has one.
Named(name) == config_FindConfig(registry, name)

\* C1: no store call is ever made under the name of a descriptor that names
\* a replacement and is marked strictly removed, however the option was
\* reached (long form, negation form, short flag, replacement target).
C1_RemovedNeverStored ==
  \A i \in 1..Len(store) :
    Named(store[i].name) # NULLITEM
      => ~IsRemoved(Deref(registry, Named(store[i].name)))

\* The step about to be taken decodes a long option whose descriptor is
\* deprecated and not removed.
AtDeprecated ==
  /\ pc = "parse"
  /\ IsLong(Scan)
  /\ IsDeprecated(Deref(registry, LongConf(Scan)))

\* C2: in strict mode, reaching a deprecated (not removed) long option
\* makes the call return -1 with no store call for it, and nothing runs
\* after the return, so no later option of argv is stored either.
C2_StrictDeprecatedAborts ==
  [][/\ pc = "done" => FALSE
     /\ (AtDeprecated /\ ~b_ignore_errors)
          => (pc' = "done" /\ ret' = -1 /\ store' = store)]_vars

\* C2 witness: a strict call has returned -1 on a deprecated option while
\* a later token of argv was still to be scanned.
C2_Witness ==
  /\ pc = "done" /\ ret = -1 /\ ~b_ignore_errors
  /\ stderr # <<>> /\ stderr[Len(stderr)].msg = "deprecated"
  /\ optind < Len(callerArgv)

\* The store function that goes with a kind.
PutOf(type) ==
  IF type \in StringKinds THEN "config_PutPsz"
  ELSE IF type = CONFIG_ITEM_FLOAT THEN "config_PutFloat"
  ELSE IF type \in {CONFIG_ITEM_INTEGER, CONFIG_ITEM_KEY, CONFIG_ITEM_BOOL}
    THEN "config_PutInt"
  ELSE "none"

\* The kind of the descriptor called `name`, "none" when there is none.
KindOf(name) ==
  IF Named(name) = NULLITEM THEN "none" ELSE Deref(registry, Named(name)).i_type

\* C3: in permissive mode, a deprecated (not removed) long option makes
\* exactly one store call, under the replacement's name and with the store
\* function of the replacement's kind, and the scan goes on.
C3_PermissiveRedirects ==
  [][(AtDeprecated /\ b_ignore_errors)
       => LET new == Deref(registry, LongConf(Scan)).psz_current
          IN /\ pc' = "parse"
             /\ Len(store') = Len(store) + 1
             /\ store'[Len(store')].name = new
             /\ store'[Len(store')].fn = PutOf(KindOf(new))]_vars

(***************************************************************************)
(* Unknown options, the caller's array, and the blocks of the call.        *)
(***************************************************************************)
\* The step about to be taken is the scanner's report of a token that is
\* in neither table, or of a flag whose required argument is missing.
AtUnknown == pc = "parse" /\ Scan.cmd = "?" /\ IsUnknown(Scan)

OutOfMemory == \E i \in 1..Len(stderr) : stderr[i].msg = "out of memory"

C6_CallerArgvUntouched ==
  [][b_ignore_errors => callerArgv' = callerArgv]_vars

\* C6 witness: a permissive call has returned after its scan permuted the
\* duplicate, which no longer has the caller's order.
C6_Witness ==
  /\ b_ignore_errors /\ pc = "done" /\ ret = 0 /\ ppsz_argv = "dup"
  /\ Len(dupArgv) = Len(callerArgv) /\ dupArgv # callerArgv

\* C7: when the call has returned, on whatever path, every block it
\* allocated has been released, and none was released twice.
C7_AllReleased == pc = "done" => (live = {} /\ ~badFree)

\* C7 witness: a strict call that had built named entries has returned -1
\* from the dispatch loop.
C7_Witness ==
  /\ pc = "done" /\ ret = -1 /\ ~b_ignore_errors
  /\ Len(p_longopts) > 1 /\ p_longopts[1].name \notin {NULL, Garbage.name}

(***************************************************************************)
(* The verbosity flag.                                                     *)
(***************************************************************************)
MaxVerbArgs == 3              \* tokens after argv[0] in the verbosity runs

dVerb == Item(<<"v", "e", "r", "b">>, "v", CONFIG_ITEM_INTEGER, NULL, FALSE)

tV == <<"-", "v">>
tVV == <<"-", "v", "v">>
tV2 == <<"-", "v", "2">>

VerbRegistries == {<<(<<dVerb, dBo>>)>>, <<(<<dCat, dBo>>), (<<dNum, dVerb>>)>>}

VerbTokens == {tV, tVV, tV2, tBo, tShortZ}

InitVerb == InitWith(VerbRegistries, Argvs(VerbTokens, MaxVerbArgs), 0..MaxOom)

SpecVerb == InitVerb /\ [][Next]_vars

IsVTok(t) == Len(t) >= 2 /\ t[1] = "-" /\ t[2] = "v"
IsVerbWrite(w) == w.name = dVerb.psz_name

\* What the claim says one token of the verbosity flag contributes: 1 for
\* a bare -v, k for k consecutive v's, N for -vN.
Contribution(t) ==
  IF \A i \in 2..Len(t) : t[i] = "v" THEN Len(t) - 1
  ELSE DigitsValue(Drop(t, 2), 10, 0)

RECURSIVE Total(_, _)
Total(ts, n) == IF n = 0 THEN 0 ELSE Total(ts, n - 1) + Contribution(ts[n])

VerbTokensOf(argv) == SelectSeq(Tail(argv), IsVTok)
VerbWrites == SelectSeq(store, IsVerbWrite)

\* The last value stored for the verbosity option by a call that returned
\* on the command line argv.
StoresLast(argv, n) ==
  (pc = "done" /\ callerArgv = argv)
    => (VerbWrites # <<>> /\ VerbWrites[Len(VerbWrites)].val = n)

\* C8: with the verbosity flag registered, the i-th store call for it holds
\* the sum of the contributions of the first i verbosity tokens of argv;
\* a call that scans all of argv makes one such call per token; the counter
\* is that sum, 0 before the first token.
C8_VerbosityCumulative ==
  pp_shortopts["v"] # NULLITEM =>
    /\ Len(VerbWrites) <= Len(VerbTokensOf(callerArgv))
    /\ \A i \in 1..Len(VerbWrites) :
         /\ VerbWrites[i].fn = "config_PutInt"
         /\ VerbWrites[i].val = Total(VerbTokensOf(callerArgv), i)
    /\ i_verbose = Total(VerbTokensOf(callerArgv), Len(VerbWrites))
    /\ (pc = "done" /\ ret = 0)
         => Len(VerbWrites) = Len(VerbTokensOf(callerArgv))
    /\ StoresLast(<<Prog, tV, tV, tV>>, 3)
    /\ StoresLast(<<Prog, tVV>>, 2)
    /\ StoresLast(<<Prog, tV2>>, 2)
    /\ StoresLast(<<Prog, tV, tVV>>, 3)

\* C8 witness: -v -vv has been scanned and the second store call holds 3.
C8_Witness ==
  /\ pc = "done" /\ callerArgv = <<Prog, tV, tVV>>
  /\ Len(VerbWrites) = 2 /\ VerbWrites[1].val = 1 /\ VerbWrites[2].val = 3

(***************************************************************************)
(* Bool options and their negation entries.                                *)
(***************************************************************************)
dDash == Item(<<"-", "x">>, NUL, CONFIG_ITEM_BOOL, NULL, FALSE)

tNoX == <<"-", "-", "n", "o", "-", "x">>
tNoDashX == <<"-", "-", "n", "o", "-", "-", "x">>
tDashX == <<"-", "-", "-", "x">>

BoolRegistries == {<<(<<dBo>>)>>, <<(<<dCat, dBo, dNum>>), (<<dDash>>)>>}

BoolTokens == {tBo, tNoBo, tNoDashBo, tDashX, tNoX, tNoDashX, tShortB, tBogus}

InitBool == InitWith(BoolRegistries, Argvs(BoolTokens, MaxArgs), 0..MaxOom)

SpecBool == InitBool /\ [][Next]_vars

\* Every descriptor of the registry, in traversal order.
RECURSIVE AllItems(_, _)
AllItems(reg, n) == IF n = 0 THEN <<>> ELSE AllItems(reg, n - 1) \o reg[n]

Descriptors == AllItems(registry, Len(registry))
BoolNames ==
  {Descriptors[i].psz_name : i \in {j \in 1..Len(Descriptors) :
                                      Descriptors[j].i_type = CONFIG_ITEM_BOOL}}

\* The names of the entries before the terminator.
RECURSIVE EntryNames(_, _)
EntryNames(tab, i) ==
  IF i > Len(tab) \/ tab[i].name = NULL THEN {}
  ELSE {tab[i].name} \cup EntryNames(tab, i + 1)

\* The name of the entry the scanner has just matched.
Matched == p_longopts[Scan.longind + 1].name

\* C9: for every Bool descriptor named X, the finished table (no name
\* allocation having failed) holds X, noX and no-X; matching noX or no-X
\* stores 0 under X and matching X stores 1 under X.
C9_NegationForms ==
  /\ [](\A X \in BoolNames :
          (pc = "parse" /\ i_index = i_opts)
            => {X, NoName(X), NoDashName(X)} \subseteq EntryNames(p_longopts, 1))
  /\ [][\A X \in BoolNames :
          (pc = "parse" /\ Scan.cmd = NUL)
            => /\ Matched \in {NoName(X), NoDashName(X)}
                  => store' = Append(store, Write("config_PutInt", X, 0))
               /\ Matched = X
                  => store' = Append(store, Write("config_PutInt", X, 1))]_vars

(***************************************************************************)
(* The size and contents of the long-option table.                         *)
(***************************************************************************)
MaxModules == 2               \* modules in a generated registry

ModulePool == {<<>>, <<dCat>>, <<dBo>>, <<dCat, dNum, dBo>>, <<dStr, dCat>>}

BuildRegistries == UNION {[1..k -> ModulePool] : k \in 0..MaxModules}

InitBuild == InitWith(BuildRegistries, Argvs({tBo, tShortB, tBogus}, 1), {0})

SpecBuild == InitBuild /\ [][Next]_vars

CountKind(P(_)) == Cardinality({i \in 1..Len(Descriptors) : P(Descriptors[i])})
NonHint(item) == ~IsHint(item)
IsBool(item) == item.i_type = CONFIG_ITEM_BOOL
HintNames ==
  {Descriptors[i].psz_name : i \in {j \in 1..Len(Descriptors) : IsHint(Descriptors[j])}}

\* C10: with no allocation failure, once the table is closed it has
\* countNonHint + 2*countBool + 1 slots: that many named entries, then one
\* all-zero terminator; no write fell outside it and no entry bears the
\* name of a hint.
C10_TableSize ==
  pc \in {"parse", "done"} =>
    LET n == CountKind(NonHint) + 2 * CountKind(IsBool)
    IN /\ Len(p_longopts) = n + 1
       /\ ~oob
       /\ \A i \in 1..n : /\ p_longopts[i].name \notin {NULL, Garbage.name}
                          /\ p_longopts[i].name \notin HintNames
                          /\ p_longopts[i].has_arg \in {no_argument, required_argument}
       /\ p_longopts[n + 1] = Terminator

\* C10 witness: a closed table with seven entries, built from two modules
\* that hold hints as well.
C10_Witness ==
  /\ pc = "parse" /\ Len(p_longopts) = 8 /\ HintNames # {}
  /\ p_longopts[8] = Terminator

(***************************************************************************)
(* Short flags: shared flags, the packed spec and its buffer.              *)
(***************************************************************************)
dAlt == Item(<<"a", "l", "t">>, "s", CONFIG_ITEM_STRING, NULL, FALSE)
dBig == Item(<<"b", "i", "g">>, "b", CONFIG_ITEM_INTEGER, NULL, FALSE)
dVs == Item(<<"v", "s">>, "v", CONFIG_ITEM_STRING, NULL, FALSE)

tShortSX == <<"-", "s", "x">>
tShortB5 == <<"-", "b", "5">>
tVX == <<"-", "v", "x">>

FlagRegistries ==
  {<<(<<dStr, dCat, dAlt>>)>>,
   <<(<<dStr, dBo>>), (<<dCat>>), (<<dAlt, dBig>>)>>,
   <<(<<dVs>>)>>,
   <<(<<dVerb, dBo>>)>>}

FlagTokens == {tShortSX, tShortB, tShortB5, tV, tVX, tBo}

SpecFlags ==
  InitWith(FlagRegistries, Argvs(FlagTokens, MaxArgs), 0..MaxOom) /\ [][Next]_vars

\* The descriptors that claim the short flag c, as positions in the
\* traversal; none for the codes that are not flags.
Claimants(c) ==
  LET t == Traversal(registry, 1, 1)
  IN IF c \in {NUL, EOF, "?"} THEN {}
     ELSE {i \in 1..Len(t) : /\ ~IsHint(Deref(registry, t[i]))
                             /\ Deref(registry, t[i]).i_short = c}

\* The claimant that comes last in traversal order.
LastClaimant(c) ==
  Traversal(registry, 1, 1)[CHOOSE i \in Claimants(c) : \A j \in Claimants(c) : j <= i]

Shared(c) == Cardinality(Claimants(c)) >= 2

\* C11: once the tables are built, a flag claimed by two or more
\* descriptors resolves to the last of them in traversal order; a match of
\* such a flag makes one store call under that descriptor's name, prints
\* nothing and the scan goes on.
C11_LastShortWins ==
  /\ [](pc = "parse"
          => \A c \in ShortCodes : Shared(c) => pp_shortopts[c] = LastClaimant(c))
  /\ [][(pc = "parse" /\ Shared(Scan.cmd))
          => /\ pc' = "parse"
             /\ stderr' = stderr
             /\ Len(store') = Len(store) + 1
             /\ store'[Len(store')].name
                  = Deref(registry, LastClaimant(Scan.cmd)).psz_name]_vars

(***************************************************************************)
(* The status returned.                                                    *)
(***************************************************************************)
\* The last diagnostic printed is `msg`.
LastMsg(msg) == stderr # <<>> /\ stderr[Len(stderr)].msg = msg

\* The three reasons there are to return -1.
StrictDeprecation == ~b_ignore_errors /\ LastMsg("deprecated")
StrictUnknown == ~b_ignore_errors /\ LastMsg("unknown option")
FailureCause == OutOfMemory \/ StrictDeprecation \/ StrictUnknown

\* C12: every run ends by returning; it returns -1 exactly when a table or
\* the argv duplicate could not be allocated, or when strict mode met a
\* deprecated or an unknown option, and 0 otherwise; a permissive run
\* without such an allocation failure returns 0.
C12_ReturnStatus ==
  /\ pc # "crashed"
  /\ pc = "done" => /\ ret \in {0, -1}
                    /\ ret = -1 <=> FailureCause
  /\ (pc = "done" /\ b_ignore_errors /\ ~OutOfMemory) => ret = 0

(***************************************************************************)
(* A name that cannot be allocated.                                        *)
(***************************************************************************)
\* The descriptor the next step of the fill loop works on, when that step
\* adds entries: the loop is inside a module and not on a hint.
AtDescriptor ==
  /\ pc = "fill_item"
  /\ p_item < confsize(registry[i_modules_index + 1])
  /\ ~IsHint(registry[i_modules_index + 1][p_item + 1])

Current == registry[i_modules_index + 1][p_item + 1]

\* C13: the step of the fill loop for one descriptor adds every entry of
\* the descriptor but those whose name could not be allocated, records the
\* descriptor's short flag whether or not a name was missing, and goes on
\* to the next descriptor without failing the call.
C13_NameFailureLocal ==
  [][AtDescriptor
       => /\ (i_index' - i_index) >= NamesWanted(Current) - (oomLeft - oomLeft')
          /\ Current.i_short # NUL
               => pp_shortopts'[Current.i_short] = <<i_modules_index + 1, p_item + 1>>
          /\ pc' = "fill_item" /\ ret' = ret]_vars

(***************************************************************************)
(* The descriptor a long option is coerced by.                             *)
(***************************************************************************)
dLost == Item(<<"l", "o", "s", "t">>, NUL, CONFIG_ITEM_STRING, <<"n", "i", "l">>, FALSE)

tLost == <<"-", "-", "l", "o", "s", "t", "=", "x">>

LostRegistries ==
  {<<(<<dNum, dLost, dBo>>)>>, <<(<<dCat, dOld>>), (<<dStr, dLost>>)>>}

LostTokens == {tLost, tOld, tNumSeven, tShortN, tBo, tBogus}

SpecLost ==
  InitWith(LostRegistries, Argvs(LostTokens, MaxArgs), 0..MaxOom) /\ [][Next]_vars

\* The next step takes a matched long option to the switch of line 310:
\* its descriptor is not removed, and not deprecated in strict mode.
ReachesCoercion ==
  /\ pc = "parse"
  /\ IsLong(Scan)
  /\ ~IsRemoved(Deref(registry, LongConf(Scan)))
  /\ ~(IsDeprecated(Deref(registry, LongConf(Scan))) /\ ~b_ignore_errors)

\* The descriptor whose kind that switch reads.
Coerced ==
  IF IsDeprecated(Deref(registry, LongConf(Scan)))
    THEN config_FindConfig(registry, Deref(registry, LongConf(Scan)).psz_current)
    ELSE LongConf(Scan)

SettableKinds ==
  StringKinds \cup {CONFIG_ITEM_INTEGER, CONFIG_ITEM_FLOAT, CONFIG_ITEM_KEY,
                    CONFIG_ITEM_BOOL}

\* C14: whenever a matched long option reaches the coercion, the descriptor
\* it is coerced by (its own, or the replacement's after redirection)
\* exists, is not a hint and has a settable kind.
C14_CoercedDescriptorExists ==
  ReachesCoercion
    => /\ Coerced # NULLITEM
       /\ ~IsHint(Deref(registry, Coerced))
       /\ Deref(registry, Coerced).i_type \in SettableKinds

(***************************************************************************)
(* The store after a strict abort.                                         *)
(***************************************************************************)
\* s is an initial part of t.
IsPrefix(s, t) == Len(s) <= Len(t) /\ SubSeq(t, 1, Len(s)) = s

\* The step taken is a return of -1 from the dispatch loop.
StrictAbortStep == pc = "parse" /\ pc' = "done" /\ ~b_ignore_errors

\* C15: a store call once made stays in the store as it was made; each
\* step of the scan adds at most the one call of the option it decodes; the
\* step that returns -1 in strict mode adds none and takes none back, so
\* what the store holds then is the calls of the options before the
\* offending token.
C15_NoRollback ==
  [][/\ IsPrefix(store, store')
     /\ Len(store') <= Len(store) + 1
     /\ Len(store') > Len(store) => (pc = "parse" /\ Scan.cmd \notin {EOF, "?"})
     /\ StrictAbortStep => store' = store]_vars

\* C15 witness: a strict call has returned -1 on its second option, and the
\* store still holds the call made for the first.
C15_Witness ==
  /\ pc = "done" /\ ret = -1 /\ ~b_ignore_errors
  /\ Len(store) = 1 /\ optind = Len(callerArgv) /\ Len(callerArgv) = 3

(***************************************************************************)
(* Integer options given text that is not a number.                        *)
(***************************************************************************)
tNumAbc == <<"-", "-", "n", "u", "m", "=", "a", "b", "c">>
tShortNAbc == <<"-", "n", "a", "b", "c">>
tShortNHex == <<"-", "n", "0", "x", "1", "0">>

NumTokens == {tNumAbc, tNumHex, tNum, tShortNAbc, tShortNHex, tSeven, tBo, tBogus}

SpecNum ==
  InitWith({<<(<<dNum, dBo>>)>>, <<(<<dCat, dBo>>), (<<dVerb, dNum>>)>>},
           Argvs(NumTokens, MaxArgs), 0..MaxOom) /\ [][Next]_vars

\* The next step decodes the Integer option `num`, in its long or its
\* short form, with the argument text arg.
NumGiven(arg) ==
  /\ pc = "parse"
  /\ Scan.optarg = arg
  /\ \/ IsLong(Scan) /\ LongName(Scan) = dNum.psz_name
     \/ IsShort(Scan) /\ Scan.cmd = dNum.i_short

\* That step stores n under `num` and the scan goes on, the status
\* untouched and nothing printed.
NumStored(n) ==
  /\ store' = Append(store, Write("config_PutInt", dNum.psz_name, n))
  /\ pc' = "parse" /\ ret' = ret /\ stderr' = stderr

\* C16: in both modes, an Integer option other than the verbosity flag,
\* long or short, stores 0 when given text that is not a number and 16
\* when given 0x10 (7 when given 7), and the call goes on to the next token
\* with its status unaffected.
C16_MalformedNumberIsZero ==
  [][/\ NumGiven(<<"a", "b", "c">>) => NumStored(0)
     /\ NumGiven(<<"0", "x", "1", "0">>) => NumStored(16)
     /\ NumGiven(tSeven) => NumStored(7)
     /\ NumGiven(tBogus) => NumStored(0)]_vars

\* C16 witness: a strict call stored 0 for -nabc and then 16 for
\* --num=0x10, and returned 0.
C16_Witness ==
  /\ pc = "done" /\ ret = 0 /\ ~b_ignore_errors
  /\ store = <<Write("config_PutInt", dNum.psz_name, 0),
               Write("config_PutInt", dNum.psz_name, 16)>>

\* What the packed spec is said to receive for a descriptor with a short
\* flag: the flag, a colon unless the descriptor is Bool, a second colon
\* only for the Integer verbosity flag.
SaidSpec(item) ==
  <<item.i_short>>
    \o (IF item.i_type # CONFIG_ITEM_BOOL THEN <<":">> ELSE <<>>)
    \o (IF item.i_short = "v" /\ item.i_type = CONFIG_ITEM_INTEGER
          THEN <<":">> ELSE <<>>)

\* C17: the step of the fill loop for a descriptor with a short flag, all
\* of whose names were allocated, appends to the packed spec the flag, one
\* colon if and only if the descriptor is not Bool, and a second colon if
\* and only if the flag is v and the kind is Integer.
C17_PackedSpec ==
  [][(AtDescriptor /\ oomLeft' = oomLeft /\ Current.i_short # NUL)
       => psz_shortopts' = psz_shortopts \o SaidSpec(Current)]_vars

\* C19: every write to the packed spec, the final NUL included, lands
\* inside its buffer of 2 * i_opts + 1 bytes: the characters emitted never
\* exceed 2 * i_opts.
C19_SpecFitsBuffer ==
  /\ (pc \in {"fill_module", "fill_item", "close"}) => i_shortopts <= 2 * i_opts
  /\ (pc \in {"parse", "done"} /\ i_shortopts # UNINIT)
       => i_shortopts < ShortoptsSize(i_opts)

(***************************************************************************)
(* Chains of replacements.                                                 *)
(***************************************************************************)
\* The next step redirects a deprecated option A that was given a value to
\* a replacement B which itself names a replacement.
AtChain ==
  /\ AtDeprecated /\ b_ignore_errors
  /\ Scan.optarg # NULL
  /\ Named(Deref(registry, LongConf(Scan)).psz_current) # NULLITEM
  /\ Deref(registry, Named(Deref(registry, LongConf(Scan)).psz_current)).psz_current # NULL

\* C18: in permissive mode the redirection follows one hop: the value
\* given to A is stored under its replacement B, by the store function of
\* B's kind, even though B names a replacement C; nothing is stored under
\* C, and nothing is printed or decided on account of B's own flags: the
\* one diagnostic is the one about A, and the scan goes on.
C18_OneHop ==
  [][AtChain
       => LET A == Deref(registry, LongConf(Scan))
              B == Deref(registry, Named(A.psz_current))
          IN /\ Len(store') = Len(store) + 1
             /\ SubSeq(store', 1, Len(store)) = store
             /\ store'[Len(store')].name = B.psz_name
             /\ store'[Len(store')].name # B.psz_current
             /\ store'[Len(store')].fn = PutOf(B.i_type)
             /\ Len(stderr') = Len(stderr) + 1
             /\ stderr'[Len(stderr')].msg = "deprecated"
             /\ stderr'[Len(stderr')].name = A.psz_name
             /\ pc' = "parse" /\ ret' = ret]_vars

\* C18 witness: a permissive call was given --via=x, where via is replaced
\* by gone and gone by num; it has stored under gone and returned 0.
C18_Witness ==
  /\ pc = "done" /\ ret = 0 /\ b_ignore_errors
  /\ callerArgv = <<Prog, tVia>>
  /\ store = <<Write("config_PutInt", dGone.psz_name, 0)>>

(***************************************************************************)
(* The argument handed to the coercion.                                    *)
(***************************************************************************)
\* The kinds whose store call reads optarg on the short path: the switch of
\* line 342 has cases for the string kinds and for Integer, which reads it
\* unless the flag is v.
ShortReadsArg(conf, cmd) ==
  \/ conf.i_type \in StringKinds
  \/ conf.i_type = CONFIG_ITEM_INTEGER /\ cmd # "v"

\* C20: whenever the next step coerces a value by a kind that takes an
\* argument (on the long path every settable kind but Bool, on the short
\* path the string kinds and Integer other than the verbosity flag), the
\* argument the scanner has set for the token just matched is not null.
C20_ArgumentPresent ==
  /\ (ReachesCoercion /\ Coerced # NULLITEM
        /\ Deref(registry, Coerced).i_type \in SettableKinds \ {CONFIG_ITEM_BOOL})
       => Scan.optarg # NULL
  /\ (pc = "parse" /\ IsShort(Scan)
        /\ ShortReadsArg(Deref(registry, pp_shortopts[Scan.cmd]), Scan.cmd))
       => Scan.optarg # NULL

====
